---- MODULE Spec2Model ----
(***************************************************************************)
(* The model-tuning notebook of csgo-player-valuation as a state machine.  *)
(* The repository holds two versions of the notebook:                      *)
(*   "ipynb"   = src/CSGO_Model_Tuning.ipynb                               *)
(*   "part000" = src/unnamed/part_000                                      *)
(* A state is the kernel's namespace, the models directory, the printed    *)
(* output and the position in the notebook; one action runs one code cell. *)
(* A statement that raises ends its cell; what the cell did before the     *)
(* raise stays done.                                                       *)
(***************************************************************************)
EXTENDS Integers, Sequences, FiniteSets, TLC

VARIABLES nb, csv, cv_loss, pc, ns, files, out, events, err, halted

vars == <<nb, csv, cv_loss, pc, ns, files, out, events, err, halted>>

(***************************************************************************)
(* Bounds                                                                  *)
(***************************************************************************)
\* Rows of arbitrary content that the CSV holds after the well-formed rows.
NExtra == 1
\* Values of max_depth (xgboost) and of learning_rate (catboost) kept of the grid.
NGrid == 2

(***************************************************************************)
(* Small helpers                                                           *)
(***************************************************************************)
RECURSIVE SumSeq(_)
SumSeq(q) == IF q = <<>> THEN 0 ELSE Head(q) + SumSeq(Tail(q))

Range(q) == {q[i] : i \in 1..Len(q)}

RECURSIVE Flatten(_)
Flatten(qq) == IF qq = <<>> THEN <<>> ELSE Head(qq) \o Flatten(Tail(qq))

\* The values of q in order of first appearance (pandas' Series.unique()).
RECURSIVE Unique(_)
Unique(q) ==
    IF q = <<>> THEN <<>>
    ELSE LET init == Unique(SubSeq(q, 1, Len(q) - 1))
             last == q[Len(q)]
         IN IF last \in Range(init) THEN init ELSE Append(init, last)

(***************************************************************************)
(* Constants of the notebooks                                              *)
(***************************************************************************)
Notebooks == {"ipynb", "part000"}

\* Dates are day numbers; NaT is what pd.to_datetime gives a missing date.
NaT == 0
CUTOFF_DATE == 2
Dates == {CUTOFF_DATE - 1, CUTOFF_DATE, CUTOFF_DATE + 1}

NaN == "NaN"
Maps == {"de_dust2", "de_inferno", "de_vertigo"}

MapDummies ==
    <<"MapName_de_dust2", "MapName_de_inferno", "MapName_de_mirage", "MapName_de_nuke",
      "MapName_de_overpass", "MapName_de_train", "MapName_de_vertigo">>

BombSiteDummies == <<"BombSite_A", "BombSite_B", "BombSite_NotPlanted">>

StateCols ==
    <<"TicksSinceStart", "CTEqVal", "TEqVal", "TRemaining", "CTRemaining",
      "THpRemaining", "CTHpRemaining", "BombPlanted">>

SpatialCols == <<"CTDistBombsiteA", "CTDistBombsiteB", "TDistBombsiteA", "TDistBombsiteB">>

COLS_ALL_of(n) ==
    IF n = "ipynb" THEN MapDummies \o StateCols \o SpatialCols
    ELSE MapDummies \o BombSiteDummies \o StateCols \o SpatialCols

COLS_NO_SPATIAL_of(n) == MapDummies \o StateCols

COLS_CB_ALL_of(n) ==
    IF n = "ipynb" THEN <<"MapName">> \o StateCols \o SpatialCols
    ELSE <<"MapName", "BombSite">> \o StateCols \o SpatialCols

COLS_CB_NO_SPATIAL_of(n) == <<"MapName">> \o StateCols

\* The code cells of each notebook, top to bottom.
Cells(n) ==
    IF n = "ipynb"
    THEN <<"define", "constants", "split", "matrices", "define", "baseline", "define",
           "baseline_map", "lr_all", "lr_no_spatial", "xgb_setup", "xgb_all",
           "xgb_no_spatial", "cb_setup", "cb_all", "cb_no_spatial", "todo">>
    ELSE <<"define", "constants", "split", "matrices", "define", "baseline", "define",
           "baseline_map", "lr_all", "xgb_setup", "xgb_all", "cb_setup", "cb_all">>

(***************************************************************************)
(* The input: rows of data/example_matches.csv                             *)
(***************************************************************************)
\* nan: the raw columns of the row that are missing, other than MapName,
\* whose missing value is MapName = NaN.
NanChoices == {{}, {"CTEqVal"}}

\* CTEqVal: the value of the row in the column CTEqVal, one of cols_scaled, where
\* it is not missing.
Row(i, d, m, w, c, n) ==
    [id |-> i, GameDate |-> d, MapName |-> m, CTWin |-> w, CTEqVal |-> c, nan |-> n,
     BaselinePred |-> <<>>, PredMapWinRate |-> <<>>]

\* Complete rows on both sides of the cutoff: enough training rows for the five
\* folds, two maps and both outcomes among the training and the test rows.
CoreRows ==
    << Row(1, CUTOFF_DATE - 1, "de_dust2", 1, 1, {}),
       Row(2, CUTOFF_DATE + 1, "de_inferno", 0, 0, {}),
       Row(3, CUTOFF_DATE - 1, "de_inferno", 0, 0, {}),
       Row(4, CUTOFF_DATE - 1, "de_dust2", 0, 0, {}),
       Row(5, CUTOFF_DATE + 1, "de_dust2", 1, 1, {}),
       Row(6, CUTOFF_DATE - 1, "de_inferno", 1, 0, {}),
       Row(7, CUTOFF_DATE - 1, "de_dust2", 1, 1, {}) >>

ExtraRows(k) ==
    { Row(Len(CoreRows) + k, d, m, w, c, n) :
        d \in Dates \cup {NaT}, m \in Maps \cup {NaN}, w \in {0, 1}, c \in {0},
        n \in NanChoices }

RECURSIVE ExtraSeqs(_)
ExtraSeqs(k) ==
    IF k = 0 THEN {<<>>}
    ELSE LET shorter == ExtraSeqs(k - 1)
         IN shorter \cup
            { Append(q, r) : q \in {x \in shorter : Len(x) = k - 1}, r \in ExtraRows(k) }

Datasets == { CoreRows \o x : x \in ExtraSeqs(NExtra) }

\* The values of CTEqVal: the complete rows with every choice of them.
FeatureVals == {0, 1}

FeatureDatasets ==
    { [i \in DOMAIN CoreRows |-> [CoreRows[i] EXCEPT !.CTEqVal = f[i]]] :
        f \in [DOMAIN CoreRows -> FeatureVals] }

(***************************************************************************)
(* The kernel: names, values, raising                                      *)
(***************************************************************************)
Names ==
    {"COLS_ALL", "COLS_NO_SPATIAL", "COLS_CB_ALL", "COLS_CB_NO_SPATIAL", "df",
     "train_df", "test_df",
     "X_train_ALL", "X_train_NO_SPATIAL", "y_train",
     "X_test_ALL", "X_test_NO_SPATIAL", "y_test",
     "X_train_cb_ALL", "X_train_cb_NO_SPATIAL", "y_train_cb",
     "X_test_cb_ALL", "X_test_cb_NO_SPATIAL", "y_test_cb",
     "scaler", "X_train_ALL_scaled", "X_test_ALL_scaled",
     "lr_all", "lr_all_test_probs", "lr_no_spatial", "lr_no_spatial_test_probs",
     "xgb_params", "xgb", "xgb_cv", "xgb_all", "xgb_all_test_probs",
     "xgb_no_spatial", "xgb_no_spatial_test_probs",
     "cb_params", "cb_all_pool", "cb_no_spatial_pool", "cb", "cb_cv",
     "cb_all", "cb_all_test_probs", "cb_no_spatial", "cb_no_spatial_test_probs"}

\* A kernel state while a cell runs: v the values, def the names that are bound.
Bind(s, name, val) == [s EXCEPT !.v[name] = val, !.def = @ \cup {name}]

\* An exception: the rest of the cell does not run.
Raise(s) == [s EXCEPT !.err = TRUE]

Log(s, e, m, X, y) ==
    [s EXCEPT !.events = Append(@, [ev |-> e, model |-> m, X |-> X, y |-> y])]

Ids(rows) == [i \in 1..Len(rows) |-> rows[i].id]

(***************************************************************************)
(* pandas                                                                  *)
(***************************************************************************)
\* Whether column col of row r is missing. The one-hot columns that
\* pd.get_dummies adds are 0 or 1, also for a row whose MapName is missing.
IsNa(r, col) ==
    IF col = "MapName" THEN r.MapName = NaN
    ELSE IF col \in Range(MapDummies) \cup Range(BombSiteDummies) THEN FALSE
    ELSE col \in r.nan

\* frame.dropna(subset = cols)
dropna(frame, cols) ==
    SelectSeq(frame, LAMBDA r : \A c \in Range(cols) : ~IsNa(r, c))

\* frame[cols]: the design matrix, one row per row of the frame, in its order.
\* vals: the values of its column CTEqVal, which every list of columns holds.
Columns(frame, cols) ==
    [rows |-> Ids(frame), cols |-> cols,
     vals |-> [i \in 1..Len(frame) |-> frame[i].CTEqVal]]

\* frame["CTWin"]: the labels, one per row of the frame, in its order.
Labels(frame) == [i \in 1..Len(frame) |-> [id |-> frame[i].id, CTWin |-> frame[i].CTWin]]

\* Series.mean() as a fraction <<sum, count>>; <<0, 0>> is the NaN of no rows.
Mean(frame) == << SumSeq([i \in 1..Len(frame) |-> frame[i].CTWin]), Len(frame) >>

\* df["GameDate"] < CUTOFF_DATE and >= CUTOFF_DATE; a comparison with NaT is False.
BeforeCutoff(r) == r.GameDate # NaT /\ r.GameDate < CUTOFF_DATE

FromCutoff(r) == r.GameDate # NaT /\ r.GameDate >= CUTOFF_DATE

(***************************************************************************)
(* print_results                                                           *)
(***************************************************************************)
Header(k, text) == [call |-> k, text |-> text, metric |-> "", arg |-> "", y |-> <<>>, p |-> <<>>]

Metric(k, name, arg, y, p) ==
    [call |-> k, text |-> "", metric |-> name, arg |-> arg, y |-> y, p |-> p]

NCalls(o) == Cardinality({i \in 1..Len(o) : o[i].text = "---------- LOG LOSS"})

\* The lines of one complete report.
Report(k, y, p) ==
    << Header(k, "---------- LOG LOSS"),    Metric(k, "log_loss", "probs", y, p),
       Header(k, "---------- BRIER SCORE"), Metric(k, "brier_score_loss", "probs[:,1]", y, p),
       Header(k, "---------- AUC"),         Metric(k, "roc_auc_score", "probs[:,1]", y, p),
       Header(k, "---------- ACCURACY"),    Metric(k, "accuracy_score", "probs[:,1] >= 0.5", y, p) >>

\* print_results(y_true_labels, y_pred_probs) for the predictions of `model`.
\* The metrics raise on label and probability vectors of different lengths;
\* the first header is printed by then.
print_results(s, model, y, p) ==
    LET k == NCalls(s.out) + 1
        called == Log(s, "evaluate", model, p.rows, Ids(y))
    IN IF Len(y) # Len(p.rows)
       THEN Raise([called EXCEPT !.out = Append(@, Header(k, "---------- LOG LOSS"))])
       ELSE [called EXCEPT !.out = @ \o Report(k, y, p)]

(***************************************************************************)
(* Cells up to the two baselines                                           *)
(***************************************************************************)
\* Set constants, read data.
Cell_constants(s) ==
    LET n == s.nb
        a == Bind(s, "COLS_ALL", COLS_ALL_of(n))
        b == IF n = "ipynb" THEN Bind(a, "COLS_NO_SPATIAL", COLS_NO_SPATIAL_of(n)) ELSE a
        c == Bind(b, "COLS_CB_ALL", COLS_CB_ALL_of(n))
        d == IF n = "ipynb" THEN Bind(c, "COLS_CB_NO_SPATIAL", COLS_CB_NO_SPATIAL_of(n)) ELSE c
    IN Bind(d, "df", s.csv)

\* The split with the cutoff day on both sides.
train_rows_UpToCutoff(df) ==
    SelectSeq(df, LAMBDA r : r.GameDate # NaT /\ r.GameDate <= CUTOFF_DATE)

train_rows(df) == SelectSeq(df, BeforeCutoff)

test_rows(df) == SelectSeq(df, FromCutoff)

\* Preprocess columns, train/test split.
Cell_split(s) ==
    IF ~({"df"} \subseteq s.def) THEN Raise(s)
    ELSE LET a == Log(s, "preprocess", "", Ids(s.v.df), Ids(s.v.df))
             b == Bind(a, "train_df", train_rows(s.v.df))
             c == Bind(b, "test_df", test_rows(s.v.df))
         IN Log(c, "split", "", Ids(c.v.train_df), Ids(c.v.test_df))

\* X = frame[cols] under the name xname, when the notebook has the column list.
Design(s, xname, frame, colsname) ==
    IF s.err THEN s
    ELSE IF ~({frame, colsname} \subseteq s.def) THEN Raise(s)
    ELSE Bind(s, xname, Columns(s.v[frame], s.v[colsname]))

DropNa(s, frame, colsname) ==
    IF s.err THEN s
    ELSE IF ~({frame, colsname} \subseteq s.def) THEN Raise(s)
    ELSE Bind(s, frame, dropna(s.v[frame], s.v[colsname]))

Target(s, yname, frame) ==
    IF s.err THEN s
    ELSE IF ~({frame} \subseteq s.def) THEN Raise(s)
    ELSE Bind(s, yname, Labels(s.v[frame]))

\* The design matrices of one frame for one family of column lists.
Matrices(s, frame, colsAll, xAll, colsNoSpatial, xNoSpatial, yname) ==
    LET a == DropNa(s, frame, colsAll)
        b == Design(a, xAll, frame, colsAll)
        c == IF s.nb = "ipynb" THEN Design(b, xNoSpatial, frame, colsNoSpatial) ELSE b
    IN Target(c, yname, frame)

\* Data used in logistic regression and XGBoost, then data used in CatBoost.
Cell_matrices(s) ==
    LET a == Matrices(s, "train_df", "COLS_ALL", "X_train_ALL",
                      "COLS_NO_SPATIAL", "X_train_NO_SPATIAL", "y_train")
        b == Matrices(a, "test_df", "COLS_ALL", "X_test_ALL",
                      "COLS_NO_SPATIAL", "X_test_NO_SPATIAL", "y_test")
        c == Matrices(b, "train_df", "COLS_CB_ALL", "X_train_cb_ALL",
                      "COLS_CB_NO_SPATIAL", "X_train_cb_NO_SPATIAL", "y_train_cb")
    IN Matrices(c, "test_df", "COLS_CB_ALL", "X_test_cb_ALL",
                "COLS_CB_NO_SPATIAL", "X_test_cb_NO_SPATIAL", "y_test_cb")

\* The mean over all of df in place of train_df.
BaselinePredValue_AllRows(s) == Mean(s.v.df)

\* train_df.CTWin.mean()
BaselinePredValue(s) == Mean(s.v.train_df)

\* np.column_stack((1 - pred, pred)): one row of probabilities per row of the frame.
Probs(src, frame, vals) == [rows |-> Ids(frame), src |-> src, vals |-> vals]

\* Baseline win rate: the same prediction in every row of test_df.
Cell_baseline(s) ==
    IF ~({"train_df", "test_df"} \subseteq s.def) THEN Raise(s)
    ELSE LET pred == BaselinePredValue(s)
             test == [i \in 1..Len(s.v.test_df) |->
                          [s.v.test_df[i] EXCEPT !.BaselinePred = pred]]
             a == Bind(s, "test_df", test)
         IN print_results(a, "baseline", Labels(test),
                          Probs("baseline", test, [i \in 1..Len(test) |-> test[i].BaselinePred]))

\* The overall training mean for every map, in place of the map's own.
map_win_rate_Overall(train) ==
    [m \in {train[i].MapName : i \in 1..Len(train)} \ {NaN} |-> Mean(train)]

\* train.groupby("MapName").CTWin.mean(): the maps that have training rows
\* (groupby leaves a missing key out) and each one's mean.
map_win_rate(train) ==
    LET keys == {train[i].MapName : i \in 1..Len(train)} \ {NaN}
    IN [m \in keys |-> Mean(SelectSeq(train, LAMBDA r : r.MapName = m))]

Half == <<1, 2>>

\* baseline_map(train, test). test is the caller's frame: the 0.5 column stays
\* in it. A map of the test set without a training row raises (.values[0] of
\* nothing) before anything is reported.
baseline_map(s, train, test) ==
    LET rate == map_win_rate(s.v[train])
        test0 == [i \in 1..Len(s.v[test]) |-> [s.v[test][i] EXCEPT !.PredMapWinRate = Half]]
        a == Bind(s, test, test0)
        maps == Unique([i \in 1..Len(test0) |-> test0[i].MapName])
        subset(m) == LET sel == SelectSeq(test0, LAMBDA r : r.MapName = m)
                     IN [i \in 1..Len(sel) |-> [sel[i] EXCEPT !.PredMapWinRate = rate[m]]]
    IN IF \E i \in 1..Len(maps) : maps[i] \notin DOMAIN rate
       THEN Raise(a)
       ELSE LET concat == Flatten([i \in 1..Len(maps) |-> subset(maps[i])])
            IN print_results(a, "baseline_map", Labels(concat),
                             Probs("baseline_map", concat,
                                   [i \in 1..Len(concat) |-> concat[i].PredMapWinRate]))

Cell_baseline_map(s) ==
    IF ~({"train_df", "test_df"} \subseteq s.def) THEN Raise(s)
    ELSE baseline_map(s, "train_df", "test_df")

(***************************************************************************)
(* scikit-learn, xgboost, catboost                                         *)
(***************************************************************************)
\* KFold(n_splits=5, ...)
n_splits == 5
Folds == 1..n_splits

MaxDepths == <<6, 8, 10, 12, 14>>
LearningRates == <<"0.05", "0.1", "0.5", "1">>

\* xgb_params, as the list of its combinations: the first NGrid values of
\* max_depth, the first value of every other parameter.
xgb_params_of(n) ==
    [i \in 1..NGrid |->
        IF n = "ipynb"
        THEN [max_depth |-> MaxDepths[i], lambda |-> "1", gamma |-> "0.0", colsample_bytree |-> "0.2"]
        ELSE [max_depth |-> MaxDepths[i], colsample_bytree |-> "0.2", learning_rate |-> "0.01",
              min_child_weight |-> "1"]]

\* cb_params, likewise: the first NGrid values of learning_rate.
cb_params_of(n) ==
    [i \in 1..NGrid |-> [learning_rate |-> LearningRates[i], depth |-> 6, l2_leaf_reg |-> 1]]

\* The tuning runs; cv_loss holds, for each, the log loss that cross-validation
\* measures for every combination on every fold.
FitIds == {"xgb_all", "xgb_no_spatial", "cb_all", "cb_no_spatial"}

\* An estimator fitted on X and y.
Estimator(kind, params, X, y) == [kind |-> kind, params |-> params, X |-> X, y |-> y]

\* estimator.fit(X, y) under the name `name`: X and y must have as many rows.
Fit(s, name, kind, params, X, y) ==
    LET called == Log(s, "fit", name, X.rows, Ids(y))
    IN IF Len(X.rows) # Len(y) THEN Raise(called)
       ELSE Bind(called, name, Estimator(kind, params, X, y))

\* estimator.predict_proba(X): one row of probabilities per row of X.
predict_proba(est, src, X) == [rows |-> X.rows, src |-> src, vals |-> <<>>, by |-> est]

\* The sum over the folds of the losses of one combination (its mean times n_splits).
LossSum(loss) == SumSeq([f \in Folds |-> loss[f]])

\* The combination of the highest loss: the score taken for the loss.
BestIndex_HighestLoss(results) ==
    CHOOSE i \in DOMAIN results :
        /\ \A j \in DOMAIN results : LossSum(results[i]) >= LossSum(results[j])
        /\ \A j \in DOMAIN results : LossSum(results[j]) = LossSum(results[i]) => i <= j

\* scoring="neg_log_loss": the best combination is the first one of the highest
\* mean score, that is, of the lowest mean log loss.
BestIndex(results) ==
    CHOOSE i \in DOMAIN results :
        /\ \A j \in DOMAIN results : LossSum(results[i]) <= LossSum(results[j])
        /\ \A j \in DOMAIN results : LossSum(results[j]) = LossSum(results[i]) => i <= j

\* GridSearchCV(est, param_grid, cv=KFold(5), scoring="neg_log_loss").fit(X, y):
\* every combination is scored on every fold, and the best one is refitted on
\* all of X and y (refit is on by default).
GridSearchCV_fit(s, cvname, fitid, kind, X, y) ==
    LET called == Log(s, "fit", fitid, X.rows, Ids(y))
        grid == s.v[cvname].param_grid
        results == [i \in 1..Len(grid) |-> [f \in Folds |-> s.cv_loss[fitid][i][f]]]
        best == BestIndex(results)
    IN IF Len(X.rows) # Len(y) THEN Raise(called)
       ELSE Bind(called, cvname,
                 [param_grid |-> grid, fitted |-> TRUE, cv_results_ |-> results,
                  best_index_ |-> best, best_params_ |-> grid[best],
                  best_estimator_ |-> Estimator(kind, grid[best], X, y)])

\* A search that was built and not yet fitted has no best_estimator_.
Unfitted(grid) ==
    [param_grid |-> grid, fitted |-> FALSE, cv_results_ |-> <<>>, best_index_ |-> 0,
     best_params_ |-> <<>>, best_estimator_ |-> <<>>]

\* model.save_model(path), pickle.dump(model, open(path, 'wb'))
Save(s, name, path) ==
    LET saved == [s EXCEPT !.files = [q \in DOMAIN s.files \cup {path} |->
                                        IF q = path THEN s.v[name] ELSE s.files[q]]]
    IN Log(saved, "save", name, s.v[name].X.rows, Ids(s.v[name].y))

\* name_test_probs = name.predict_proba(X); print_results(y, name_test_probs)
Evaluate(s, name, xname, yname) ==
    IF s.err THEN s
    ELSE IF ~({name, xname} \subseteq s.def) THEN Raise(s)
    ELSE LET probsname == name \o "_test_probs"
             a == Bind(s, probsname, predict_proba(s.v[name], name, s.v[xname]))
         IN IF yname \notin a.def THEN Raise(a)
            ELSE print_results(a, name, a.v[yname], a.v[probsname])

(***************************************************************************)
(* Logistic regression                                                     *)
(***************************************************************************)
LrParams(n) ==
    IF n = "ipynb" THEN [random_state |-> 2020, penalty |-> "l2", solver |-> "default"]
    ELSE [random_state |-> 2020, penalty |-> "none", solver |-> "saga"]

\* StandardScaler().fit(X[cols_scaled].values): the mean and the population
\* variance of each scaled column over the rows of X, as fractions of n_samples_seen_.
StandardScaler_fit(X) ==
    LET n == Len(X.vals)
        total == SumSeq(X.vals)
        squares == SumSeq([i \in 1..n |-> X.vals[i] * X.vals[i]])
    IN [n_samples_seen_ |-> n, fit_rows |-> X.rows,
        mean_ |-> <<total, n>>, var_ |-> <<n * squares - total * total, n * n>>]

\* scaler.transform(values): (x - mean_) / scale_ with scale_ = sqrt(var_), and
\* scale_ = 1 for a column of no variance. The quotient is kept as its centred
\* numerator num / den and the square of its scale.
StandardScaler_transform(scaler, vals) ==
    [i \in 1..Len(vals) |->
        [num |-> vals[i] * scaler.mean_[2] - scaler.mean_[1], den |-> scaler.mean_[2],
         scale2 |-> IF scaler.var_[1] = 0 THEN <<1, 1>> ELSE scaler.var_]]

\* X.copy() with its cols_scaled columns replaced by scaler.transform of them.
Scaled(X, scaler) ==
    [rows |-> X.rows, cols |-> X.cols, vals |-> StandardScaler_transform(scaler, X.vals),
     scaled_by |-> scaler]

\* The logistic regression cell of src/CSGO_Model_Tuning.ipynb: fit, then report.
Cell_lr_all_ipynb(s) ==
    IF ~({"X_train_ALL", "y_train"} \subseteq s.def) THEN Raise(s)
    ELSE LET a == Fit(s, "lr_all", "LogisticRegression", LrParams(s.nb),
                      s.v.X_train_ALL, s.v.y_train)
         IN Evaluate(a, "lr_all", "X_test_ALL", "y_test")

\* The logistic regression cell with the scaler fitted on the training and the
\* test rows together.
Cell_lr_all_part000_FitOnAll(s) ==
    IF ~({"X_train_ALL", "X_test_ALL"} \subseteq s.def) THEN Raise(s)
    ELSE LET all == [rows |-> s.v.X_train_ALL.rows \o s.v.X_test_ALL.rows,
                     cols |-> s.v.X_train_ALL.cols,
                     vals |-> s.v.X_train_ALL.vals \o s.v.X_test_ALL.vals]
             a == Bind(s, "scaler", StandardScaler_fit(all))
             b == Bind(a, "X_train_ALL_scaled", Scaled(a.v.X_train_ALL, a.v.scaler))
             c == Bind(b, "X_test_ALL_scaled", Scaled(b.v.X_test_ALL, b.v.scaler))
         IN IF "y_train" \notin c.def THEN Raise(c)
            ELSE LET d == Fit(c, "lr_all", "LogisticRegression", LrParams(s.nb),
                              c.v.X_train_ALL_scaled, c.v.y_train)
                     e == Evaluate(d, "lr_all", "X_test_ALL_scaled", "y_test")
                 IN IF e.err THEN e ELSE Save(e, "lr_all", "models/logreg.model")

\* The logistic regression cell of src/unnamed/part_000: scale, fit, report, save.
Cell_lr_all_part000(s) ==
    IF ~({"X_train_ALL", "X_test_ALL"} \subseteq s.def) THEN Raise(s)
    ELSE LET a == Bind(s, "scaler", StandardScaler_fit(s.v.X_train_ALL))
             b == Bind(a, "X_train_ALL_scaled", Scaled(a.v.X_train_ALL, a.v.scaler))
             c == Bind(b, "X_test_ALL_scaled", Scaled(b.v.X_test_ALL, b.v.scaler))
         IN IF "y_train" \notin c.def THEN Raise(c)
            ELSE LET d == Fit(c, "lr_all", "LogisticRegression", LrParams(s.nb),
                              c.v.X_train_ALL_scaled, c.v.y_train)
                     e == Evaluate(d, "lr_all", "X_test_ALL_scaled", "y_test")
                 IN IF e.err THEN e ELSE Save(e, "lr_all", "models/logreg.model")

Cell_lr_all(s) == IF s.nb = "ipynb" THEN Cell_lr_all_ipynb(s) ELSE Cell_lr_all_part000(s)

Cell_lr_no_spatial(s) ==
    IF ~({"X_train_NO_SPATIAL", "y_train"} \subseteq s.def) THEN Raise(s)
    ELSE LET a == Fit(s, "lr_no_spatial", "LogisticRegression", LrParams(s.nb),
                      s.v.X_train_NO_SPATIAL, s.v.y_train)
         IN Evaluate(a, "lr_no_spatial", "X_test_NO_SPATIAL", "y_test")

(***************************************************************************)
(* Tuned models                                                            *)
(***************************************************************************)
\* The file each tuned model is saved to.
ModelPath(n, name) ==
    IF n = "ipynb"
    THEN CASE name = "xgb_all" -> "models/xgboost_all_features.model"
           [] name = "xgb_no_spatial" -> "models/xgboost_no_spatial_features.model"
           [] name = "cb_all" -> "models/catboost_all_features.model"
           [] name = "cb_no_spatial" -> "models/catboost_no_spatial_features.model"
    ELSE CASE name = "xgb_all" -> "models/xgboost.model"
           [] name = "cb_all" -> "models/catboost.model"

\* print(search.best_params_)
PrintBestParams(s, cvname) ==
    [s EXCEPT !.out = Append(@, [call |-> 0, text |-> "best_params_", metric |-> "",
                                 arg |-> "", y |-> <<>>, p |-> s.v[cvname].best_params_])]

\* The tuning cell with the model saved after its evaluation.
Tune_SaveLast(s, cvname, name, kind, xtrain, xtest) ==
    IF ~({cvname, xtrain, "y_train"} \subseteq s.def) THEN Raise(s)
    ELSE LET a == GridSearchCV_fit(s, cvname, name, kind, s.v[xtrain], s.v.y_train)
         IN IF a.err THEN a
            ELSE LET b == Bind(a, name, a.v[cvname].best_estimator_)
                     d == PrintBestParams(b, cvname)
                     e == Evaluate(d, name, xtest, "y_test")
                 IN IF e.err THEN e ELSE Save(e, name, ModelPath(s.nb, name))

\* A tuning cell: search.fit(X, y_train); name = search.best_estimator_;
\* name.save_model(path); print(search.best_params_); probabilities; print_results.
Tune(s, cvname, name, kind, xtrain, xtest) ==
    IF ~({cvname, xtrain, "y_train"} \subseteq s.def) THEN Raise(s)
    ELSE LET a == GridSearchCV_fit(s, cvname, name, kind, s.v[xtrain], s.v.y_train)
         IN IF a.err THEN a
            ELSE LET b == Bind(a, name, a.v[cvname].best_estimator_)
                     c == Save(b, name, ModelPath(s.nb, name))
                     d == PrintBestParams(c, cvname)
                 IN Evaluate(d, name, xtest, "y_test")

Cell_xgb_setup(s) ==
    LET a == Bind(s, "xgb_params", xgb_params_of(s.nb))
        b == Bind(a, "xgb", "XGBClassifier")
    IN Bind(b, "xgb_cv", Unfitted(b.v.xgb_params))

Cell_xgb_all(s) == Tune(s, "xgb_cv", "xgb_all", "XGBClassifier", "X_train_ALL", "X_test_ALL")

Cell_xgb_no_spatial(s) ==
    Tune(s, "xgb_cv", "xgb_no_spatial", "XGBClassifier", "X_train_NO_SPATIAL", "X_test_NO_SPATIAL")

\* Pool(data = X, label = y, ...)
Pool(s, name, xname, yname) ==
    IF s.err THEN s
    ELSE IF ~({xname, yname} \subseteq s.def) THEN Raise(s)
    ELSE Bind(s, name, [data |-> s.v[xname], label |-> s.v[yname]])

\* cb_params, the two pools, cb, cb_cv; a pool of an unbound matrix raises and
\* leaves cb and cb_cv unbound.
Cell_cb_setup(s) ==
    LET a == Bind(s, "cb_params", cb_params_of(s.nb))
        b == Pool(a, "cb_all_pool", "X_train_cb_ALL", "y_train_cb")
        c == Pool(b, "cb_no_spatial_pool", "X_train_cb_NO_SPATIAL", "y_train_cb")
    IN IF c.err THEN c
       ELSE Bind(Bind(c, "cb", "CatBoostClassifier"), "cb_cv", Unfitted(c.v.cb_params))

Cell_cb_all(s) ==
    Tune(s, "cb_cv", "cb_all", "CatBoostClassifier", "X_train_cb_ALL", "X_test_cb_ALL")

Cell_cb_no_spatial(s) ==
    Tune(s, "cb_cv", "cb_no_spatial", "CatBoostClassifier",
         "X_train_cb_NO_SPATIAL", "X_test_cb_NO_SPATIAL")

\* The last cell of src/CSGO_Model_Tuning.ipynb is a note, not Python: a SyntaxError.
Cell_todo(s) == Raise(s)

(***************************************************************************)
(* The state machine                                                       *)
(***************************************************************************)
\* Cross-validation losses, in whole units; the folds of a shuffled KFold
\* carry no order of their own, so each combination's losses are listed in
\* nondecreasing order.
LossVals == {0, 1}

FoldLosses == {l \in [Folds -> LossVals] : \A f \in 1..(n_splits - 1) : l[f] <= l[f + 1]}

Tables == [1..NGrid -> FoldLosses]

NoLoss == [i \in 1..NGrid |-> [f \in Folds |-> 0]]

\* The losses of one tuning run are arbitrary, those of the others are NoLoss.
Oracles == {[k \in FitIds |-> IF k = j THEN T ELSE NoLoss] : j \in FitIds, T \in Tables}

Init ==
    /\ nb \in Notebooks
    /\ \/ csv \in Datasets /\ cv_loss = [k \in FitIds |-> NoLoss]
       \/ csv = CoreRows /\ cv_loss \in Oracles
    /\ pc = 1
    /\ ns = [v |-> [n \in Names |-> <<>>], def |-> {}]
    /\ files = << >>
    /\ out = << >>
    /\ events = << >>
    /\ err = FALSE
    /\ halted = FALSE

\* The next cell to run is a cell `name`.
AtCell(name) ==
    /\ ~halted
    /\ pc <= Len(Cells(nb))
    /\ Cells(nb)[pc] = name

\* The kernel state a cell starts from.
Kernel ==
    [nb |-> nb, csv |-> csv, cv_loss |-> cv_loss, v |-> ns.v, def |-> ns.def,
     files |-> files, out |-> out, events |-> events, err |-> FALSE]

\* The cell has run and left the kernel in state r.
Ran(r) ==
    /\ ns' = [v |-> r.v, def |-> r.def]
    /\ files' = r.files
    /\ out' = r.out
    /\ events' = r.events
    /\ err' = r.err
    /\ pc' = pc + 1
    /\ UNCHANGED <<nb, csv, cv_loss, halted>>

\* Imports and function definitions bind nothing the model tracks.
Cell_define(s) == s

CellDefine ==
    /\ AtCell("define")
    /\ Ran(Cell_define(Kernel))

CellConstants ==
    /\ AtCell("constants")
    /\ Ran(Cell_constants(Kernel))

CellSplit ==
    /\ AtCell("split")
    /\ Ran(Cell_split(Kernel))

CellMatrices ==
    /\ AtCell("matrices")
    /\ Ran(Cell_matrices(Kernel))

CellBaseline ==
    /\ AtCell("baseline")
    /\ Ran(Cell_baseline(Kernel))

CellBaselineMap ==
    /\ AtCell("baseline_map")
    /\ Ran(Cell_baseline_map(Kernel))

CellLrAll ==
    /\ AtCell("lr_all")
    /\ Ran(Cell_lr_all(Kernel))

CellLrNoSpatial ==
    /\ AtCell("lr_no_spatial")
    /\ Ran(Cell_lr_no_spatial(Kernel))

CellXgbSetup ==
    /\ AtCell("xgb_setup")
    /\ Ran(Cell_xgb_setup(Kernel))

CellXgbAll ==
    /\ AtCell("xgb_all")
    /\ Ran(Cell_xgb_all(Kernel))

CellXgbNoSpatial ==
    /\ AtCell("xgb_no_spatial")
    /\ Ran(Cell_xgb_no_spatial(Kernel))

CellCbSetup ==
    /\ AtCell("cb_setup")
    /\ Ran(Cell_cb_setup(Kernel))

CellCbAll ==
    /\ AtCell("cb_all")
    /\ Ran(Cell_cb_all(Kernel))

CellCbNoSpatial ==
    /\ AtCell("cb_no_spatial")
    /\ Ran(Cell_cb_no_spatial(Kernel))

CellTodo ==
    /\ AtCell("todo")
    /\ Ran(Cell_todo(Kernel))

\* "Run All" stops at the first cell that raises; run by hand, the next cell follows.
RunAllStops ==
    /\ err
    /\ ~halted
    /\ pc <= Len(Cells(nb))
    /\ halted' = TRUE
    /\ UNCHANGED <<nb, csv, cv_loss, pc, ns, files, out, events, err>>

Next ==
    \/ CellDefine
    \/ CellConstants
    \/ CellSplit
    \/ CellMatrices
    \/ CellBaseline
    \/ CellBaselineMap
    \/ CellLrAll
    \/ CellLrNoSpatial
    \/ CellXgbSetup
    \/ CellXgbAll
    \/ CellXgbNoSpatial
    \/ CellCbSetup
    \/ CellCbAll
    \/ CellCbNoSpatial
    \/ CellTodo
    \/ RunAllStops

Spec == Init /\ [][Next]_vars

\* The runs of the notebooks on the complete rows with every choice of the
\* values of the scaled column.
InitFeatures ==
    /\ nb \in Notebooks
    /\ csv \in FeatureDatasets
    /\ cv_loss = [k \in FitIds |-> NoLoss]
    /\ pc = 1
    /\ ns = [v |-> [n \in Names |-> <<>>], def |-> {}]
    /\ files = << >>
    /\ out = << >>
    /\ events = << >>
    /\ err = FALSE
    /\ halted = FALSE

SpecFeatures == InitFeatures /\ [][Next]_vars

(***************************************************************************)
(* What the claims speak of                                                *)
(***************************************************************************)
\* The place of the cell `name` in the notebook, and whether it has run.
CellIndex(name) == CHOOSE i \in 1..Len(Cells(nb)) : Cells(nb)[i] = name

HasRun(name) == pc > CellIndex(name)

IdsOf(frame) == {frame[i].id : i \in 1..Len(frame)}

\* The rows of the CSV with a date, up to and after the cutoff.
ValidRows == {i \in 1..Len(csv) : csv[i].GameDate # NaT}

UpToCutoff == {csv[i].id : i \in {j \in ValidRows : csv[j].GameDate <= CUTOFF_DATE}}

AfterCutoff == {csv[i].id : i \in {j \in ValidRows : csv[j].GameDate > CUTOFF_DATE}}

\* The places in the log of the events e of model m.
EventsOf(e, m) == {i \in 1..Len(events) : events[i].ev = e /\ events[i].model = m}

\* What the split put in the training set (X) and in the test set (y).
SplitEvent == events[CHOOSE i \in 1..Len(events) : events[i].ev = "split"]

\* The metric lines that print_results printed for the predictions of src.
MetricsOf(src) == {i \in 1..Len(out) : out[i].metric # "" /\ out[i].p.src = src}

\* The CTWin mean of the rows of frame whose ids are in S, as <<sum, count>>.
MeanOver(frame, S) ==
    << Cardinality({i \in 1..Len(frame) : frame[i].id \in S /\ frame[i].CTWin = 1}),
       Cardinality({i \in 1..Len(frame) : frame[i].id \in S}) >>

(***************************************************************************)
(* C1: the split puts every match state dated before or on CUTOFF_DATE in  *)
(* the training set and every match state dated after it in the test set.  *)
(* Stated of the frames as the split leaves them, before any dropna.       *)
(***************************************************************************)
C1_SplitAtCutoff ==
    (pc = CellIndex("matrices")) =>
        /\ IdsOf(ns.v.train_df) = UpToCutoff
        /\ IdsOf(ns.v.test_df) = AfterCutoff

(***************************************************************************)
(* C2: once every cell has run, top to bottom, the models directory holds  *)
(* a saved model of each family: logistic regression, XGBoost, CatBoost.   *)
(***************************************************************************)
SavedKinds == {files[f].kind : f \in DOMAIN files}

C2_FinalModelsSaved ==
    (pc > Len(Cells(nb))) =>
        {"LogisticRegression", "XGBClassifier", "CatBoostClassifier"} \subseteq SavedKinds

(***************************************************************************)
(* C3: for every model the stages are in the order preprocessing, split,   *)
(* fit, evaluation, serialization: a model is fitted after the split, is   *)
(* evaluated after its fit, and is saved only after its evaluation.        *)
(***************************************************************************)
Before(e1, m1, i) == \E j \in EventsOf(e1, m1) : j < i

FittedModels == {"lr_all", "lr_no_spatial"} \cup FitIds

PreparedBeforeFit ==
    /\ \A i \in EventsOf("split", "") : Before("preprocess", "", i)
    /\ \A m \in FittedModels :
        /\ \A i \in EventsOf("fit", m) : Before("split", "", i)
        /\ \A i \in EventsOf("evaluate", m) : Before("fit", m, i)
        /\ \A i \in EventsOf("save", m) : Before("fit", m, i)

C3_StagesInOrder ==
    /\ PreparedBeforeFit
    /\ \A m \in FittedModels : \A i \in EventsOf("save", m) : Before("evaluate", m, i)

\* C3 as amended: preprocessing, split and fit come first for every model;
\* logistic regression is saved after its evaluation, a tuned model (XGBoost,
\* CatBoost) is saved before its evaluation.
C3_StagesInOrderAmended ==
    /\ PreparedBeforeFit
    /\ \A i \in EventsOf("save", "lr_all") : Before("evaluate", "lr_all", i)
    /\ \A m \in FitIds : \A i \in EventsOf("evaluate", m) : Before("save", m, i)

C3_Witness ==
    /\ EventsOf("save", "lr_all") # {}
    /\ EventsOf("save", "xgb_all") # {}
    /\ EventsOf("evaluate", "xgb_all") # {}

(***************************************************************************)
(* C4: the baseline predicts the same CT-win probability for every test    *)
(* row: the mean of CTWin over the rows of the training set (train_df),    *)
(* whatever the test rows and their labels are.                            *)
(***************************************************************************)
C4_BaselineIsTrainMean ==
    HasRun("baseline") =>
        /\ MetricsOf("baseline") # {}
        /\ \A k \in MetricsOf("baseline") :
            /\ out[k].p.rows = Ids(ns.v.test_df)
            /\ \A i \in 1..Len(out[k].p.vals) :
                out[k].p.vals[i] = MeanOver(csv, IdsOf(ns.v.train_df))
        /\ \A i \in 1..Len(ns.v.test_df) :
            ns.v.test_df[i].BaselinePred = MeanOver(csv, IdsOf(ns.v.train_df))

C4_Witness ==
    /\ HasRun("baseline")
    /\ Len(ns.v.test_df) >= 2
    /\ \E i, j \in 1..Len(ns.v.test_df) : ns.v.test_df[i].CTWin # ns.v.test_df[j].CTWin
    /\ Len(ns.v.train_df) < Len(SplitEvent.X)

(***************************************************************************)
(* C5: baseline_map predicts, for each row of the test set, the mean of    *)
(* CTWin over the training rows that have the same MapName as that row.    *)
(***************************************************************************)
\* The training rows of the map of the test row with id a.
TrainRowsOfMapOf(a) ==
    {r.id : r \in {x \in Range(ns.v.train_df) :
                     \E t \in Range(ns.v.test_df) : t.id = a /\ t.MapName = x.MapName}}

\* One reported prediction per test row, each the mean of its map's training rows.
MapBaselinePredictions ==
    /\ MetricsOf("baseline_map") # {}
    /\ \A k \in MetricsOf("baseline_map") :
        /\ Len(out[k].p.rows) = Len(ns.v.test_df)
        /\ Range(out[k].p.rows) = IdsOf(ns.v.test_df)
        /\ Ids(out[k].y) = out[k].p.rows
        /\ \A i \in 1..Len(out[k].p.rows) :
            out[k].p.vals[i] = MeanOver(csv, TrainRowsOfMapOf(out[k].p.rows[i]))

C5_MapBaselinePredicts == HasRun("baseline_map") => MapBaselinePredictions

TestMapsSeenInTraining ==
    \A t \in Range(ns.v.test_df) : \E x \in Range(ns.v.train_df) : x.MapName = t.MapName

\* C5 as amended: when every MapName of the test set has a training row,
\* baseline_map predicts for each test row the mean of its map's training
\* rows; otherwise it raises and reports nothing.
C5_MapBaselineAmended ==
    HasRun("baseline_map") =>
        IF TestMapsSeenInTraining THEN MapBaselinePredictions
        ELSE MetricsOf("baseline_map") = {}

C5_Witness ==
    /\ HasRun("baseline_map")
    /\ TestMapsSeenInTraining
    /\ \E k \in MetricsOf("baseline_map") :
         /\ out[k].p.rows # Ids(ns.v.test_df)
         /\ \E i, j \in 1..Len(out[k].p.vals) : out[k].p.vals[i] # out[k].p.vals[j]

(***************************************************************************)
(* C6: for XGBoost and for CatBoost, tuning scores every combination of    *)
(* the grid on each of the 5 folds, and the model that is saved and then   *)
(* evaluated on the test set is the one of the combination whose mean log  *)
(* loss over the 5 folds is lowest.                                        *)
(***************************************************************************)
TunedIds == IF nb = "ipynb" THEN FitIds ELSE {"xgb_all", "cb_all"}

GridOf(id) == IF id \in {"xgb_all", "xgb_no_spatial"} THEN xgb_params_of(nb) ELSE cb_params_of(nb)

\* Five times the mean log loss of combination i in the tuning run id.
FoldTotal(id, i) ==
    cv_loss[id][i][1] + cv_loss[id][i][2] + cv_loss[id][i][3] + cv_loss[id][i][4] + cv_loss[id][i][5]

SearchCoversGrid(cvname, grid) ==
    (cvname \in ns.def /\ ns.v[cvname].fitted) =>
        /\ DOMAIN ns.v[cvname].cv_results_ = 1..Len(grid)
        /\ \A i \in 1..Len(grid) : DOMAIN ns.v[cvname].cv_results_[i] = 1..5

C6_TunedModelIsBest ==
    /\ SearchCoversGrid("xgb_cv", xgb_params_of(nb))
    /\ SearchCoversGrid("cb_cv", cb_params_of(nb))
    /\ \A id \in TunedIds :
        ModelPath(nb, id) \in DOMAIN files =>
            LET m == files[ModelPath(nb, id)]
                probs == id \o "_test_probs"
            IN /\ \E i \in 1..Len(GridOf(id)) :
                    /\ GridOf(id)[i] = m.params
                    /\ \A j \in 1..Len(GridOf(id)) : FoldTotal(id, i) <= FoldTotal(id, j)
               /\ probs \in ns.def => ns.v[probs].by = m

C6_Witness ==
    \E id \in TunedIds :
        /\ ModelPath(nb, id) \in DOMAIN files
        /\ files[ModelPath(nb, id)].params # GridOf(id)[1]
        /\ MetricsOf(id) # {}

(***************************************************************************)
(* C7: every call of print_results reports log loss, Brier score, AUC and  *)
(* accuracy, each once and in that order, all from the same labels and the *)
(* same probabilities; every model whose test probabilities were computed  *)
(* is reported through print_results.                                      *)
(***************************************************************************)
LinesOfCall(k) == SelectSeq(out, LAMBDA e : e.call = k)

C7_FourMetricsPerCall ==
    /\ \A k \in 1..NCalls(out) :
        LET lines == LinesOfCall(k)
        IN /\ [i \in 1..Len(lines) |-> lines[i].text \o lines[i].metric] =
                << "---------- LOG LOSS", "log_loss", "---------- BRIER SCORE", "brier_score_loss",
                   "---------- AUC", "roc_auc_score", "---------- ACCURACY", "accuracy_score" >>
           /\ \A i, j \in {2, 4, 6, 8} : lines[i].y = lines[j].y /\ lines[i].p = lines[j].p
    /\ \A m \in FittedModels : (m \o "_test_probs") \in ns.def => MetricsOf(m) # {}

(***************************************************************************)
(* C8: logistic regression and XGBoost results are each presented on two   *)
(* feature sets: all features, and no spatial features, which is the       *)
(* all-features column list without the four bombsite-distance columns and *)
(* with every other column kept.                                           *)
(***************************************************************************)
WithoutSpatial(cols) ==
    SelectSeq(cols, LAMBDA c : c \notin {"CTDistBombsiteA", "CTDistBombsiteB",
                                         "TDistBombsiteA", "TDistBombsiteB"})

PresentedOnBoth(all, noSpatial) ==
    /\ {all, noSpatial} \subseteq ns.def
    /\ MetricsOf(all) # {}
    /\ MetricsOf(noSpatial) # {}
    /\ ns.v[all].X.cols = ns.v.COLS_ALL
    /\ ns.v[noSpatial].X.cols = WithoutSpatial(ns.v.COLS_ALL)
    /\ Len(ns.v[noSpatial].X.cols) = Len(ns.v.COLS_ALL) - 4

C8_TwoFeatureSets ==
    (pc > Len(Cells(nb))) =>
        /\ PresentedOnBoth("lr_all", "lr_no_spatial")
        /\ PresentedOnBoth("xgb_all", "xgb_no_spatial")

(***************************************************************************)
(* C9: every feature matrix and label vector passed together to a fit call *)
(* or to print_results hold the same rows in the same order, also when     *)
(* rows with missing values were dropped.                                  *)
(***************************************************************************)
C9_SameRowsInOrder ==
    \A i \in 1..Len(events) :
        events[i].ev \in {"fit", "evaluate"} => events[i].X = events[i].y

(***************************************************************************)
(* C10: after the date split no row is in both the training and the test   *)
(* set and every input row with a valid GameDate is in exactly one of      *)
(* them; the later dropna steps only remove rows, they move none across.   *)
(***************************************************************************)
C10_SplitIsPartition ==
    ({"train_df", "test_df"} \subseteq ns.def) =>
        /\ Range(SplitEvent.X) \cap Range(SplitEvent.y) = {}
        /\ Range(SplitEvent.X) \cup Range(SplitEvent.y) = {csv[i].id : i \in ValidRows}
        /\ Cardinality(Range(SplitEvent.X)) = Len(SplitEvent.X)
        /\ Cardinality(Range(SplitEvent.y)) = Len(SplitEvent.y)
        /\ IdsOf(ns.v.train_df) \subseteq Range(SplitEvent.X)
        /\ IdsOf(ns.v.test_df) \subseteq Range(SplitEvent.y)
        /\ Cardinality(IdsOf(ns.v.train_df)) = Len(ns.v.train_df)
        /\ Cardinality(IdsOf(ns.v.test_df)) = Len(ns.v.test_df)

C10_Witness ==
    /\ HasRun("matrices")
    /\ IdsOf(ns.v.train_df) # Range(SplitEvent.X) \/ IdsOf(ns.v.test_df) # Range(SplitEvent.y)

\* The rows of the CSV that the training set holds after its dropna.
TrainingSet == SelectSeq(csv, LAMBDA r : r.id \in IdsOf(ns.v.train_df))

\* The rows of the CSV that the test set holds after its dropna.
TestSet == SelectSeq(csv, LAMBDA r : r.id \in IdsOf(ns.v.test_df))

FeatureSum(frame) == SumSeq([i \in 1..Len(frame) |-> frame[i].CTEqVal])

FeatureSquares(frame) ==
    SumSeq([i \in 1..Len(frame) |-> frame[i].CTEqVal * frame[i].CTEqVal])

\* The mean and the variance of CTEqVal over the rows of frame.
MeanOf(frame) == <<FeatureSum(frame), Len(frame)>>

VarOf(frame) ==
    <<Len(frame) * FeatureSquares(frame) - FeatureSum(frame) * FeatureSum(frame),
      Len(frame) * Len(frame)>>

\* x standardized with the mean and the variance of frame.
StandardizedOver(frame, x) ==
    [num |-> x * Len(frame) - FeatureSum(frame), den |-> Len(frame),
     scale2 |-> IF VarOf(frame)[1] = 0 THEN <<1, 1>> ELSE VarOf(frame)]

\* A row of the training side as it is; a row of the test side with its id and
\* its date, and with any value, present or missing, and any outcome.
RowVariants(r) ==
    IF BeforeCutoff(r) THEN {r}
    ELSE {[r EXCEPT !.CTEqVal = c, !.CTWin = w, !.nan = n] :
            c \in FeatureVals, w \in {0, 1}, n \in NanChoices}

RECURSIVE VariantsUpTo(_)
VariantsUpTo(k) ==
    IF k = 0 THEN {<<>>}
    ELSE {Append(q, r) : q \in VariantsUpTo(k - 1), r \in RowVariants(csv[k])}

\* The CSVs that differ from the one read in rows of the test side only.
TestVariants == VariantsUpTo(Len(csv))

\* The kernel after the cells up to the logistic regression ran on the CSV alt.
LrRunOn(alt) ==
    Cell_lr_all(Cell_matrices(Cell_split(Cell_constants(
        [nb |-> nb, csv |-> alt, cv_loss |-> cv_loss, v |-> [n \in Names |-> <<>>],
         def |-> {}, files |-> << >>, out |-> << >>, events |-> << >>, err |-> FALSE]))))

====
